---------------------------- MODULE Spec2Model ----------------------------
(***************************************************************************)
(* A model of src/sixdegrees.py, the "Smart Candidate Matcher" Streamlit   *)
(* application: connections ingestion, job-criteria extraction, the        *)
(* profile-location resolver with its two caches, the scoring engine and   *)
(* the session state machine driven by main().                            *)
(*                                                                         *)
(* Text is modelled character by character: a Python str is a sequence of  *)
(* one-character strings, so that lower(), strip(), the "in" substring     *)
(* test and the fuzzy ratio are computed the way the code computes them.   *)
(***************************************************************************)
EXTENDS Integers, Sequences, FiniteSets, TLC

(***************************************************************************)
(* Characters and str methods                                              *)
(***************************************************************************)
UpperLetters ==
  <<"A","B","C","D","E","F","G","H","I","J","K","L","M",
    "N","O","P","Q","R","S","T","U","V","W","X","Y","Z">>

LowerLetters ==
  <<"a","b","c","d","e","f","g","h","i","j","k","l","m",
    "n","o","p","q","r","s","t","u","v","w","x","y","z">>

Digits == <<"0","1","2","3","4","5","6","7","8","9">>

\* The characters of the model in code-point order (Python compares str by
\* code point); every character of every modelled text is listed here.
CodePoints ==
  <<" ", "&", "+", "-", ".", "/">> \o Digits \o <<":", "=", "?">>
    \o UpperLetters \o <<"_">> \o LowerLetters

Range(seq) == { seq[i] : i \in 1..Len(seq) }

\* ord(c), for the comparison of two characters
Ord == [c \in Range(CodePoints) |-> CHOOSE i \in 1..Len(CodePoints) : CodePoints[i] = c]

UpperSet == Range(UpperLetters)

LetterSet == Range(UpperLetters) \cup Range(LowerLetters)

\* the characters the pattern \w matches
AlnumSet == LetterSet \cup Range(Digits) \cup {"_"}

IsAlnum(c) == c \in AlnumSet

LowerOf ==
  [c \in UpperSet |->
     LowerLetters[CHOOSE i \in 1..Len(UpperLetters) : UpperLetters[i] = c]]

LowerChar(c) == IF c \in UpperSet THEN LowerOf[c] ELSE c

\* str.lower()
Lower(s) == [i \in 1..Len(s) |-> LowerChar(s[i])]

\* str.strip(): leading and trailing whitespace removed
RECURSIVE LStrip(_)
LStrip(s) == IF s # <<>> /\ Head(s) = " " THEN LStrip(Tail(s)) ELSE s

RECURSIVE RStrip(_)
RStrip(s) ==
  IF s # <<>> /\ s[Len(s)] = " " THEN RStrip(SubSeq(s, 1, Len(s) - 1)) ELSE s

Strip(s) == RStrip(LStrip(s))

\* s[i:i+len(w)] == w
StartsAt(s, i, w) ==
  /\ i >= 1
  /\ i + Len(w) - 1 <= Len(s)
  /\ SubSeq(s, i, i + Len(w) - 1) = w

\* the Python test "needle in hay" on two str values
Contains(hay, needle) ==
  \E i \in 1..(Len(hay) - Len(needle) + 1) : StartsAt(hay, i, needle)

\* str.replace(old, new) for a single character
ReplaceChar(s, old, new) == [i \in 1..Len(s) |-> IF s[i] = old THEN new ELSE s[i]]

\* str.split(): the maximal runs of non-whitespace characters
RECURSIVE SplitFrom(_, _, _)
SplitFrom(s, cur, acc) ==
  IF s = <<>>
    THEN IF cur = <<>> THEN acc ELSE Append(acc, cur)
    ELSE IF Head(s) = " "
      THEN SplitFrom(Tail(s), <<>>, IF cur = <<>> THEN acc ELSE Append(acc, cur))
      ELSE SplitFrom(Tail(s), Append(cur, Head(s)), acc)

Split(s) == SplitFrom(s, <<>>, <<>>)

\* a < b for two str values (lexicographic by code point)
RECURSIVE StrLess(_, _)
StrLess(a, b) ==
  IF b = <<>> THEN FALSE
  ELSE IF a = <<>> THEN TRUE
  ELSE IF Head(a) = Head(b) THEN StrLess(Tail(a), Tail(b))
  ELSE Ord[Head(a)] < Ord[Head(b)]

\* sorted(tokens): insertion sort of a list of str
RECURSIVE InsertSorted(_, _)
InsertSorted(t, lst) ==
  IF lst = <<>> THEN <<t>>
  ELSE IF StrLess(t, Head(lst)) THEN <<t>> \o lst
  ELSE <<Head(lst)>> \o InsertSorted(t, Tail(lst))

RECURSIVE SortedTokens(_)
SortedTokens(lst) ==
  IF lst = <<>> THEN <<>> ELSE InsertSorted(Head(lst), SortedTokens(Tail(lst)))

\* " ".join(tokens)
RECURSIVE Join(_)
Join(lst) ==
  IF lst = <<>> THEN <<>>
  ELSE IF Len(lst) = 1 THEN Head(lst)
  ELSE Head(lst) \o <<" ">> \o Join(Tail(lst))

Max(a, b) == IF a >= b THEN a ELSE b

(***************************************************************************)
(* fuzz.token_sort_ratio, as the calls at lines 424, 434 and 440 use it.   *)
(* fuzzywuzzy computes the ratio with python-Levenshtein when that is      *)
(* installed and with difflib.SequenceMatcher otherwise; the two count     *)
(* matching characters differently, so the matcher is part of the state.   *)
(***************************************************************************)
Matchers == {"difflib", "levenshtein"}

\* utils.full_process: non-alphanumerics become whitespace, lower, strip
FullProcess(s) ==
  Strip(Lower([i \in 1..Len(s) |-> IF IsAlnum(s[i]) THEN s[i] ELSE " "]))

\* fuzz._process_and_sort
ProcessAndSort(s) == Strip(Join(SortedTokens(Split(FullProcess(s)))))

\* length of the common prefix of a[i..] and b[j..]
RECURSIVE CommonRun(_, _, _, _)
CommonRun(a, b, i, j) ==
  IF i > Len(a) \/ j > Len(b) \/ a[i] # b[j] THEN 0
  ELSE 1 + CommonRun(a, b, i + 1, j + 1)

\* SequenceMatcher.find_longest_match: the longest common block, the one
\* starting earliest in a and then earliest in b among the longest
LongestMatch(a, b) ==
  LET cand == { <<i, j>> \in (1..Len(a)) \X (1..Len(b)) : a[i] = b[j] }
      best == CHOOSE p \in cand :
                \A q \in cand :
                   LET kp == CommonRun(a, b, p[1], p[2])
                       kq == CommonRun(a, b, q[1], q[2])
                   IN \/ kp > kq
                      \/ kp = kq /\ p[1] < q[1]
                      \/ kp = kq /\ p[1] = q[1] /\ p[2] <= q[2]
  IN IF cand = {} THEN <<0, 0, 0>>
     ELSE <<best[1], best[2], CommonRun(a, b, best[1], best[2])>>

\* SequenceMatcher.get_matching_blocks: total size of the matching blocks
RECURSIVE MatchingBlocks(_, _)
MatchingBlocks(a, b) ==
  IF a = <<>> \/ b = <<>> THEN 0
  ELSE LET m == LongestMatch(a, b)
       IN IF m[3] = 0 THEN 0
          ELSE m[3]
               + MatchingBlocks(SubSeq(a, 1, m[1] - 1), SubSeq(b, 1, m[2] - 1))
               + MatchingBlocks(SubSeq(a, m[1] + m[3], Len(a)),
                                SubSeq(b, m[2] + m[3], Len(b)))

\* one row of the longest-common-subsequence table: the entries 0..j of the
\* row of character ch, given the previous row
\* (the length tests in LcsRow and LcsRows are always false: they only make
\* TLC evaluate the part already built before it recurses)
RECURSIVE LcsRow(_, _, _, _)
LcsRow(prev, ch, b, j) ==
  IF j = 0 THEN <<0>>
  ELSE LET r == LcsRow(prev, ch, b, j - 1)
       IN IF Len(r) # j THEN r
          ELSE Append(r, IF b[j] = ch THEN prev[j] + 1
                         ELSE Max(prev[j + 1], r[j]))

\* the row of the table after the first i characters of a
RECURSIVE LcsRows(_, _, _)
LcsRows(a, b, i) ==
  IF i = 0 THEN [j \in 1..(Len(b) + 1) |-> 0]
  ELSE LET p == LcsRows(a, b, i - 1)
       IN IF Len(p) # Len(b) + 1 THEN p
          ELSE LcsRow(p, a[i], b, Len(b))

\* Levenshtein.ratio counts a substitution as 2, so that
\* (lensum - distance) / lensum = 2 * LCS / lensum
Lcs(a, b) == LcsRows(a, b, Len(a))[Len(b) + 1]

Matches(m, a, b) == IF m = "difflib" THEN MatchingBlocks(a, b) ELSE Lcs(a, b)

\* utils.intr(100 * ratio): Python 3 round(), half to even, of 200*M/T
IntR(num, den) ==
  LET q == num \div den
      r == num % den
  IN IF 2 * r < den THEN q
     ELSE IF 2 * r > den THEN q + 1
     ELSE IF q % 2 = 0 THEN q ELSE q + 1

\* fuzz.ratio with its decorators: equal strings give 100, an empty one 0
Ratio(m, a, b) ==
  IF a = b THEN 100
  ELSE IF Len(a) = 0 \/ Len(b) = 0 THEN 0
  ELSE IntR(200 * Matches(m, a, b), Len(a) + Len(b))

TokenSortRatio(m, s1, s2) == Ratio(m, ProcessAndSort(s1), ProcessAndSort(s2))

(***************************************************************************)
(* Python values                                                           *)
(***************************************************************************)
\* None, the float NaN pandas puts in an empty cell, and the NaT of a date
\* that did not parse: none of them is a str, so none is a sequence of
\* one-character strings.
None == <<"None">>
NaN == <<"NaN">>
NaT == <<"NaT">>

\* str(x) for a cell: str(float("nan")) is "nan"
PyStr(x) == IF x = NaN THEN <<"n","a","n">> ELSE x

\* truth value of a str-or-None (and of a cell: NaN is truthy)
Truthy(x) == x # None /\ x # <<>>

NotSpecified == <<"N","o","t"," ","s","p","e","c","i","f","i","e","d">>
NotFound == <<"N","o","t"," ","F","o","u","n","d">>

(***************************************************************************)
(* extract_location_from_profile (lines 330-409)                           *)
(***************************************************************************)
LruMaxSize == 100

ProfileMarker ==
  <<"l","i","n","k","e","d","i","n",".","c","o","m","/","i","n","/">>

LocationParam == <<"l","o","c","a","t","i","o","n","=">>

CleanWords ==
  { <<"A","r","e","a">>, <<"R","e","g","i","o","n">>,
    <<"G","r","e","a","t","e","r">> }

\* first position at or after i that holds no whitespace
RECURSIVE SkipWs(_, _)
SkipWs(s, i) == IF i <= Len(s) /\ s[i] = " " THEN SkipWs(s, i + 1) ELSE i

WordsAt(s, i) == { w \in CleanWords : StartsAt(s, i, w) }

\* re.sub(r'\s*(?:Area|Region|Greater)\s*', ' ', s), from position i on
RECURSIVE CleanFrom(_, _)
CleanFrom(s, i) ==
  IF i > Len(s) THEN <<>>
  ELSE LET j == SkipWs(s, i)
           ws == WordsAt(s, j)
       IN IF ws # {}
            THEN LET w == CHOOSE x \in ws : TRUE
                 IN <<" ">> \o CleanFrom(s, SkipWs(s, j + Len(w)))
            ELSE <<s[i]>> \o CleanFrom(s, i + 1)

CleanLocation(s) == Strip(CleanFrom(s, 1))

IsLetter(c) == c \in LetterSet

\* len(location) >= 2 and re.match(r'^[A-Za-z\s,.-]+$', location)
ValidLocation(s) ==
  /\ Len(s) >= 2
  /\ \A i \in 1..Len(s) : IsLetter(s[i]) \/ s[i] \in {" ", ",", ".", "-"}

\* the run of characters other than "&" that starts at position i
RECURSIVE ParamRun(_, _)
ParamRun(s, i) ==
  IF i > Len(s) \/ s[i] = "&" THEN <<>> ELSE <<s[i]>> \o ParamRun(s, i + 1)

\* re.search(r'location=([^&]+)', url): group(1) of the leftmost match, or None
LocationMatch(url) ==
  LET n == Len(LocationParam)
      at == { i \in 1..Len(url) :
                /\ StartsAt(url, i, LocationParam)
                /\ ParamRun(url, i + n) # <<>> }
  IN IF at = {} THEN None
     ELSE ParamRun(url, (CHOOSE i \in at : \A k \in at : i <= k) + n)

\* What requests.get and the parse of the page give for one profile URL:
\* an exception (404, timeout, ...), or the text the three lookups found
\* (None when none of them found one).
Txt_GreaterNyArea == <<"G","r","e","a","t","e","r"," ","n","y"," ","A","r","e","a">>
Txt_ny42 == <<"n","y"," ","4","2">>

ScrapedTexts == { None, Txt_GreaterNyArea, Txt_ny42 }

Responses ==
  { [kind |-> "error", scraped |-> None] }
    \cup { [kind |-> "page", scraped |-> t] : t \in ScrapedTexts }

\* dict lookups and stores on a function whose domain is the set of keys
Put(d, k, v) == (k :> v) @@ d

Count(d, k) == IF k \in DOMAIN d THEN d[k] ELSE 0

\* The body of extract_location_from_profile (lines 333-409) on the state
\* loc = [cache, requests, failed, warned]: cache is
\* st.session_state.location_cache; requests counts the GETs issued per URL,
\* failed holds the URLs whose GET raised, warned records the st.warning.
\* RequestFailed with line 408 left out: the failure is not remembered
RequestFailedForgotten(sent, url) ==
  [value |-> None,
   loc |-> [sent EXCEPT !.failed = @ \cup {url}, !.warned = TRUE]]

\* lines 404-409 after the GET has raised: the warning is shown and the
\* absent result is stored in the session cache
RequestFailed(sent, url) ==
  [value |-> None,
   loc |-> [sent EXCEPT !.cache = Put(@, url, None),
                        !.failed = @ \cup {url},
                        !.warned = TRUE]]

LocationBody(url, resp, loc) ==
  IF url \in DOMAIN loc.cache
    THEN [value |-> loc.cache[url], loc |-> loc]
  ELSE IF url = <<>> \/ ~Contains(Lower(url), ProfileMarker)
    THEN [value |-> None, loc |-> loc]
  ELSE
    LET sent == [loc EXCEPT !.requests = Put(@, url, Count(@, url) + 1)]
        cleaned == IF Truthy(resp.scraped) THEN CleanLocation(resp.scraped)
                   ELSE None
        param == LocationMatch(url)
    IN IF resp.kind = "error"
         THEN RequestFailed(sent, url)
       ELSE IF Truthy(resp.scraped) /\ ValidLocation(cleaned)
         THEN [value |-> cleaned,
               loc |-> [sent EXCEPT !.cache = Put(@, url, cleaned)]]
       ELSE IF param # None
         THEN LET l == ReplaceChar(param, "+", " ")
              IN [value |-> l, loc |-> [sent EXCEPT !.cache = Put(@, url, l)]]
       ELSE [value |-> None,
             loc |-> [sent EXCEPT !.cache = Put(@, url, None)]]

\* functools.lru_cache(maxsize=100): lru is the list of <<url, value>>
\* entries, the most recently used last
LruHit(lru, url) == { i \in 1..Len(lru) : lru[i][1] = url }

LruWithout(lru, i) == SubSeq(lru, 1, i - 1) \o SubSeq(lru, i + 1, Len(lru))

LruStore(lru, url, v) ==
  LET full == Append(lru, <<url, v>>)
  IN IF Len(full) > LruMaxSize THEN Tail(full) ELSE full

\* The decorated function: a memoized result is returned without running
\* the body; otherwise the body runs and its result is memoized.
ExtractLocationFromProfile(url, resp, loc) ==
  LET hit == LruHit(loc.lru, url)
  IN IF hit # {}
       THEN LET i == CHOOSE x \in hit : TRUE
            IN [value |-> loc.lru[i][2],
                loc |-> [loc EXCEPT !.lru = Append(LruWithout(@, i), loc.lru[i])]]
       ELSE LET r == LocationBody(url, resp, loc)
            IN [value |-> r.value,
                loc |-> [r.loc EXCEPT !.lru = LruStore(@, url, r.value)]]


(***************************************************************************)
(* match_candidates (lines 411-456)                                        *)
(***************************************************************************)
\* the weights of score_candidate, in hundredths of a point per unit
TitleWeight == 50
SeniorityPoints == 20
LocationWeight == 15
IndustryWeight == 15
MinScore == 20
TopN == 5

\* round(score, 2) of a score given in units of 1/10000: the result is in
\* hundredths of a point, the unit match_score is kept in
Round2(x) == IntR(x, 100)

\* the response of the web to a GET of url during one run of the script
RespFor(web, url) ==
  IF url \in DOMAIN web THEN web[url] ELSE [kind |-> "error", scraped |-> None]

\* SameCompany with the case of the two names kept: the comparison a
\* missing .lower() would make
SameCompanyExact(row, criteria) ==
  PyStr(row["Company"]) = criteria.company_name

\* line 417: the contact works at the company of the posting
SameCompany(row, criteria) ==
  Lower(PyStr(row["Company"])) = Lower(criteria.company_name)

\* TitlePoints with the whole similarity counted, as before the weight 0.5
TitlePointsFull(title_similarity) == title_similarity * 100 * 100

\* line 425: the points of a title similarity, in units of 1/10000
TitlePoints(title_similarity) == title_similarity * TitleWeight * 100

\* LocationPoints without the test of the job location at line 433
LocationPointsAlways(m, location, candidate_location) ==
  IF Truthy(candidate_location)
    THEN TokenSortRatio(m, Lower(location), Lower(candidate_location))
           * LocationWeight * 100
    ELSE 0

\* lines 433-435: the points of the location, in units of 1/10000
LocationPoints(m, location, candidate_location) ==
  IF Truthy(candidate_location) /\ Lower(location) # Lower(NotSpecified)
    THEN TokenSortRatio(m, Lower(location), Lower(candidate_location))
           * LocationWeight * 100
    ELSE 0

\* score_candidate (lines 416-443); m is the matcher of fuzz, loc the state
\* of the location resolver, which the call at line 432 changes
ScoreCandidate(row, criteria, m, web, loc) ==
  IF SameCompany(row, criteria)
    THEN [score |-> 0, loc |-> loc]
  ELSE
    LET position == Lower(PyStr(row["Position"]))
        title == TitlePoints(
                   TokenSortRatio(m, Lower(criteria.job_title), position))
        seniority == IF Contains(position, Lower(criteria.seniority))
                       THEN SeniorityPoints * 10000 ELSE 0
        url == PyStr(row["URL"])
        found == ExtractLocationFromProfile(url, RespFor(web, url), loc)
        location == LocationPoints(m, criteria.location, found.value)
        candidate_company == Lower(PyStr(row["Company"]))
        industry ==
          IF Lower(criteria.industry) # Lower(NotSpecified)
            THEN TokenSortRatio(m, Lower(criteria.industry), candidate_company)
                   * IndustryWeight * 100
            ELSE 0
    IN [score |-> Round2(title + seniority + location + industry),
        loc |-> found.loc]

\* connections_df.apply(score_candidate, axis=1): the rows are scored in
\* order, each call seeing the caches the calls before it left
AppendScore(scores, r) == [scores |-> Append(scores, r.score), loc |-> r.loc]

RECURSIVE ApplyScore(_, _, _, _, _, _)
ApplyScore(rows, n, criteria, m, web, loc) ==
  IF n = 0 THEN [scores |-> <<>>, loc |-> loc]
  ELSE LET before == ApplyScore(rows, n - 1, criteria, m, web, loc)
       IN AppendScore(before.scores,
                      ScoreCandidate(rows[n], criteria, m, web, before.loc))

LinkPrefix == <<"<","a"," ","h","r","e","f","=","\"">>
LinkSuffix == <<"\""," ","t","a","r","g","e","t","=","\"","_","b","l","a","n","k","\"",">","V","i","e","w"," ","P","r","o","f","i","l","e","<","/","a",">">>

\* the lambda of line 454
ProfileLink(x) == IF x # <<>> THEN LinkPrefix \o PyStr(x) \o LinkSuffix ELSE <<>>

\* SetScore with the link written into the URL of the table as well
SetScoreLinked(row, v) ==
  ("match_score" :> v) @@ [row EXCEPT !["URL"] = ProfileLink(@)]

\* connections_df["match_score"] = ...: the column is added or overwritten
SetScore(row, v) == ("match_score" :> v) @@ row

\* Filtered with the threshold itself let through (>= for >)
FilteredAtLeast(rows) ==
  { i \in 1..Len(rows) : rows[i]["match_score"] >= MinScore * 100 }

\* connections_df[connections_df["match_score"] > 20], as row positions
Filtered(rows) == { i \in 1..Len(rows) : rows[i]["match_score"] > MinScore * 100 }

\* sort_values(by="match_score", ascending=False): every order of the
\* positions in which the score never increases; pandas' default sort is
\* not stable, so the order of equal scores is any order
RECURSIVE SortedOrders(_, _)
SortedOrders(rows, S) ==
  IF S = {} THEN { <<>> }
  ELSE LET top == { i \in S : \A k \in S :
                      rows[i]["match_score"] >= rows[k]["match_score"] }
       IN UNION { { <<i>> \o t : t \in SortedOrders(rows, S \ {i}) } : i \in top }

\* HeadN without the cut
HeadAll(seq) == seq

\* .head(5)
HeadN(seq) == SubSeq(seq, 1, IF Len(seq) < TopN THEN Len(seq) ELSE TopN)

\* lines 450-454: the display columns of one row, its URL made a link; the
\* row keeps its index label
DisplayRow(row) ==
  [k \in {"index", "First Name", "Last Name", "Position", "Company",
          "match_score", "URL"} |->
     IF k = "URL" THEN ProfileLink(row[k]) ELSE row[k]]

\* lines 446-454 on the scored table: every shortlist the sort may give
Shortlists(scored) ==
  { [j \in 1..Len(o) |-> DisplayRow(scored[o[j]])] :
      o \in { HeadN(x) : x \in SortedOrders(scored, Filtered(scored)) } }

\* line 445: the scores become the match_score column of the table
ScoredFrame(rows, scores) ==
  [i \in 1..Len(rows) |-> SetScore(rows[i], scores[i])]

MatchResult(scored, loc) ==
  [df |-> scored, loc |-> loc, results |-> Shortlists(scored)]

MatchApplied(rows, applied) ==
  MatchResult(ScoredFrame(rows, applied.scores), applied.loc)

\* match_candidates: the table with its match_score column, the state of the
\* resolver after the scoring, and every shortlist the sort may give
MatchCandidates(rows, criteria, m, web, loc) ==
  IF rows = <<>>
    THEN [df |-> rows, loc |-> loc, results |-> { <<>> }]
  ELSE MatchApplied(rows, ApplyScore(rows, Len(rows), criteria, m, web, loc))


(***************************************************************************)
(* Connections ingestion (lines 144-208)                                   *)
(*                                                                         *)
(* An uploaded file is a list of lines and a line a list of cells: the     *)
(* splitting of a line at its commas is pandas' and is not modelled.  The  *)
(* file object is a stream: a read starts where the read before it ended.  *)
(***************************************************************************)
ExpectedColumns ==
  <<"First Name", "Last Name", "URL", "Email Address", "Company", "Position",
    "Connected On">>

RequiredColumns == {"First Name", "Last Name", "Company", "Position"}

\* the text of each canonical column name
ColumnText ==
  [k \in {"First Name", "Last Name", "URL", "Email Address", "Company",
          "Position", "Connected On"} |->
     CASE k = "First Name" -> <<"F","i","r","s","t"," ","N","a","m","e">>
       [] k = "Last Name" -> <<"L","a","s","t"," ","N","a","m","e">>
       [] k = "URL" -> <<"U","R","L">>
       [] k = "Email Address" -> <<"E","m","a","i","l"," ","A","d","d","r","e","s","s">>
       [] k = "Company" -> <<"C","o","m","p","a","n","y">>
       [] k = "Position" -> <<"P","o","s","i","t","i","o","n">>
       [] k = "Connected On" -> <<"C","o","n","n","e","c","t","e","d"," ","O","n">>]

\* the cells read_csv reads as missing (a part of its default na_values)
NaValues == { <<>>, <<"N","A">>, <<"n","a","n">>, <<"N","a","N">> }

OpenFile(lines) == [lines |-> lines, pos |-> 1]

RECURSIVE DropBlank(_)
DropBlank(lines) ==
  IF lines = <<>> THEN <<>>
  ELSE IF Head(lines) = <<>> THEN DropBlank(Tail(lines))
  ELSE <<Head(lines)>> \o DropBlank(Tail(lines))

\* the data lines read_csv keeps: a line with more cells than the header is
\* a bad line, skipped under on_bad_lines='skip'
RECURSIVE KeepLines(_, _)
KeepLines(lines, width) ==
  IF lines = <<>> THEN <<>>
  ELSE IF Len(Head(lines)) > width THEN KeepLines(Tail(lines), width)
  ELSE <<Head(lines)>> \o KeepLines(Tail(lines), width)

\* one data line as a row of the frame: short lines are padded with NaN
ReadRow(line, width) ==
  [c \in 1..width |->
     IF c > Len(line) \/ line[c] \in NaValues THEN NaN ELSE line[c]]

\* pd.read_csv(csv_file, skiprows=skip, encoding="utf-8"[, on_bad_lines='skip'])
\* on a stream: it reads from the current position to the end of the file,
\* where it leaves the stream.  raised: EmptyDataError when no line is left
\* to be the header, ParserError on a bad line unless tolerant.  The frame
\* is [columns, data, index], index the row labels 0, 1, ...
ReadCsv(stream, skip, tolerant) ==
  LET avail == SubSeq(stream.lines, stream.pos, Len(stream.lines))
      rest == DropBlank(SubSeq(avail, skip + 1, Len(avail)))
      after == [stream EXCEPT !.pos = Len(stream.lines) + 1]
      width == Len(Head(rest))
      body == Tail(rest)
      kept == KeepLines(body, width)
  IN IF rest = <<>>
       THEN [raised |-> TRUE, stream |-> after]
     ELSE IF ~tolerant /\ kept # body
       THEN [raised |-> TRUE, stream |-> after]
     ELSE [raised |-> FALSE, stream |-> after,
           df |-> [columns |-> Head(rest),
                   data |-> [i \in 1..Len(kept) |-> ReadRow(kept[i], width)],
                   index |-> [i \in 1..Len(kept) |-> i - 1]]]

HasColumn(df, name) == \E c \in 1..Len(df.columns) : df.columns[c] = name

\* df[name]: the cell of row i in the (first) column of that name
Cell(df, i, name) ==
  df.data[i][CHOOSE c \in 1..Len(df.columns) :
               /\ df.columns[c] = name
               /\ \A d \in 1..Len(df.columns) : df.columns[d] = name => c <= d]

IsDigit(c) == c \in Range(Digits)

\* pd.to_datetime(..., errors="coerce") on one cell: a year parses, anything
\* else of the modelled cells does not and becomes NaT
ToDatetime(x) ==
  IF x # NaN /\ Len(x) = 4 /\ \A i \in 1..Len(x) : IsDigit(x[i])
    THEN <<"Timestamp">> \o x
    ELSE NaT

\* lines 149-157 on one cell of column k: the column is created as "" when
\* missing, str cells are stripped, Connected On is parsed, Company and
\* Position are made str
CleanCell(df, i, k) ==
  LET raw == IF HasColumn(df, ColumnText[k]) THEN Cell(df, i, ColumnText[k])
             ELSE <<>>
      stripped == IF raw = NaN THEN NaN ELSE Strip(raw)
  IN IF k = "Connected On" THEN ToDatetime(stripped)
     ELSE IF k \in {"Company", "Position"} THEN PyStr(stripped)
     ELSE stripped

SameRow(a, b) ==
  \A c \in 1..Len(ExpectedColumns) : a[ExpectedColumns[c]] = b[ExpectedColumns[c]]

\* DropDuplicates with every row kept
KeepRows(rows) == rows

\* df.drop_duplicates(inplace=True): a row equal in every column to a row
\* before it is dropped; the rows kept keep their index labels
RECURSIVE DropDuplicates(_)
DropDuplicates(rows) ==
  IF rows = <<>> THEN <<>>
  ELSE LET n == Len(rows)
           before == DropDuplicates(SubSeq(rows, 1, n - 1))
       IN IF \E i \in 1..(n - 1) : SameRow(rows[i], rows[n])
            THEN before ELSE Append(before, rows[n])

\* clean_csv_data: a row is a function of the seven column names and "index"
CleanCsvData(df) ==
  DropDuplicates(
    [i \in 1..Len(df.data) |->
       [k \in {"index", "First Name", "Last Name", "URL", "Email Address",
               "Company", "Position", "Connected On"} |->
          IF k = "index" THEN df.index[i] ELSE CleanCell(df, i, k)]])

\* all(col in df.columns for col in [...]) of lines 166 and 174
HasRequired(df) == \A k \in RequiredColumns : HasColumn(df, ColumnText[k])

\* [col for col in df.columns if any(term in col.lower() for term in terms)]
ColumnsWith(df, terms) ==
  LET RECURSIVE Pick(_)
      Pick(c) ==
        IF c > Len(df.columns) THEN <<>>
        ELSE IF \E t \in terms : Contains(Lower(df.columns[c]), t)
          THEN <<df.columns[c]>> \o Pick(c + 1)
          ELSE Pick(c + 1)
  IN Pick(1)

\* lines 184-200: the columns renamed by the substring rules; a later entry
\* of the dict literal replaces an earlier one with the same key
RenameColumns(df) ==
  LET name_cols == ColumnsWith(df, { <<"n","a","m","e">> })
      company_cols == ColumnsWith(df, { <<"c","o","m","p","a","n","y">> })
      position_cols == ColumnsWith(df, { <<"p","o","s","i","t","i","o","n">>, <<"t","i","t","l","e">>, <<"r","o","l","e">> })
      url_cols == ColumnsWith(df, { <<"u","r","l">>, <<"l","i","n","k">>, <<"p","r","o","f","i","l","e">> })
      m1 == Put(<<>>, name_cols[1], ColumnText["First Name"])
      m2 == Put(m1, name_cols[Len(name_cols)], ColumnText["Last Name"])
      m3 == Put(m2, company_cols[1], ColumnText["Company"])
      m4 == Put(m3, position_cols[1], ColumnText["Position"])
      m5 == IF url_cols # <<>> THEN Put(m4, url_cols[1], ColumnText["URL"]) ELSE m4
  IN IF name_cols # <<>> /\ company_cols # <<>> /\ position_cols # <<>>
       THEN [found |-> TRUE,
             df |-> [df EXCEPT !.columns =
                       [c \in 1..Len(df.columns) |->
                          IF df.columns[c] \in DOMAIN m5 THEN m5[df.columns[c]]
                          ELSE df.columns[c]]]]
       ELSE [found |-> FALSE, df |-> df]

\* extract_linkedin_connections: ok is "the result is not None", rows the
\* table, errors the st.error messages shown, strategy the try that returned
\* and frame the frame it gave clean_csv_data.  The three reads share the
\* one stream csv_file.
ExtractLinkedinConnections(lines) ==
  LET first == ReadCsv(OpenFile(lines), 3, FALSE)
      second == ReadCsv(first.stream, 0, FALSE)
      third == ReadCsv(second.stream, 0, TRUE)
      renamed == RenameColumns(third.df)
  IN IF ~first.raised /\ HasRequired(first.df)
       THEN [ok |-> TRUE, rows |-> CleanCsvData(first.df), errors |-> {},
             strategy |-> 1, frame |-> first.df]
     ELSE IF ~second.raised /\ HasRequired(second.df)
       THEN [ok |-> TRUE, rows |-> CleanCsvData(second.df), errors |-> {},
             strategy |-> 2, frame |-> second.df]
     ELSE IF third.raised
       THEN [ok |-> FALSE, rows |-> <<>>, errors |-> {"Error processing CSV file"},
             strategy |-> 0, frame |-> <<>>]
     ELSE IF renamed.found
       THEN [ok |-> TRUE, rows |-> CleanCsvData(renamed.df), errors |-> {},
             strategy |-> 3, frame |-> renamed.df]
     ELSE [ok |-> FALSE, rows |-> <<>>, errors |-> {"Unable to process CSV file"},
           strategy |-> 0, frame |-> <<>>]


(***************************************************************************)
(* extract_job_criteria (lines 245-328)                                    *)
(*                                                                         *)
(* A posting is what the GET of the job URL and the regular expressions    *)
(* give: kind "error" when the GET raises; otherwise text, the description *)
(* extract_job_description returns (None when the page holds none), and    *)
(* for each re.search of lines 259-316 the stripped group(1) of its match  *)
(* (None when no pattern matches).  The seniority is computed from text.   *)
(***************************************************************************)
SeniorityLevels ==
  << [level |-> <<"E","n","t","r","y"," ","L","e","v","e","l">>,
      keywords |-> { <<"e","n","t","r","y">>, <<"j","u","n","i","o","r">>, <<"a","s","s","o","c","i","a","t","e">>, <<"t","r","a","i","n","e","e">> }],
     [level |-> <<"M","i","d","-","L","e","v","e","l">>,
      keywords |-> { <<"m","i","d">>, <<"i","n","t","e","r","m","e","d","i","a","t","e">>, <<"e","x","p","e","r","i","e","n","c","e","d">> }],
     [level |-> <<"S","e","n","i","o","r">>,
      keywords |-> { <<"s","e","n","i","o","r">>, <<"s","r">>, <<"l","e","a","d">>, <<"p","r","i","n","c","i","p","a","l">> }],
     [level |-> <<"M","a","n","a","g","e","m","e","n","t">>,
      keywords |-> { <<"m","a","n","a","g","e","r">>, <<"d","i","r","e","c","t","o","r">>, <<"h","e","a","d">>, <<"v","p">>, <<"c","h","i","e","f">>, <<"e","x","e","c","u","t","i","v","e">> }] >>

\* the last level one of whose keywords is in the text
ExtractSeniorityLast(job_desc) ==
  LET hits == { i \in 1..Len(SeniorityLevels) :
                  \E k \in SeniorityLevels[i].keywords :
                     Contains(Lower(job_desc), k) }
  IN IF hits = {} THEN NotSpecified
     ELSE SeniorityLevels[CHOOSE i \in hits : \A j \in hits : i >= j].level

\* lines 272-276: the first level one of whose keywords is in the text
ExtractSeniority(job_desc) ==
  LET hits == { i \in 1..Len(SeniorityLevels) :
                  \E k \in SeniorityLevels[i].keywords :
                     Contains(Lower(job_desc), k) }
  IN IF hits = {} THEN NotSpecified
     ELSE SeniorityLevels[CHOOSE i \in hits : \A j \in hits : i <= j].level

OrElse(x, default) == IF x = None THEN default ELSE x

\* extract_job_criteria: ok is "the result is not None"
ExtractJobCriteria(posting) ==
  IF posting.kind = "error"
    THEN [ok |-> FALSE, errors |-> {"Failed to fetch job description"}]
  ELSE IF ~Truthy(posting.text)
    THEN [ok |-> FALSE, errors |-> {}]
  ELSE [ok |-> TRUE, errors |-> {},
        criteria |->
          [job_title |-> OrElse(posting.title, NotFound),
           seniority |-> ExtractSeniority(posting.text),
           company_name |-> OrElse(posting.company, NotSpecified),
           location |-> OrElse(posting.location, NotSpecified),
           industry |-> OrElse(posting.industry, NotSpecified),
           years_experience |-> 0]]

\* the options of the "Level" selectbox (line 611)
LevelOptions == { SeniorityLevels[i].level : i \in 1..Len(SeniorityLevels) }


(***************************************************************************)
(* The session: main() (lines 526-643) is run again from the top at every  *)
(* interaction of the user, on the state st.session_state keeps.           *)
(***************************************************************************)
VARIABLES
  role,                \* the value of the sidebar selectbox (line 534)
  session_state,       \* st.session_state: a function of the keys it holds
  lru,                 \* the memo of lru_cache on extract_location_from_profile
  matcher,             \* the matcher fuzzywuzzy was imported with
  requests,            \* history: the number of GETs issued per profile URL
  failed,              \* history: the profile URLs whose GET raised
  screen,              \* the widgets the last run rendered
  ui,                  \* the messages the last run showed
  raised,              \* the exception that ended the last run, or "none"
  matching_candidates, \* what match_candidates returned in the last run
  ingested,            \* the file of the uploader and what line 561 returned
  fetched              \* history: the posting page line 595 fetched in the last run

vars ==
  <<role, session_state, lru, matcher, requests, failed, screen, ui, raised,
    matching_candidates, ingested, fetched>>

Roles == {"Employee", "Recruiter"}

NoMatchRun == [ran |-> FALSE, rows |-> <<>>]

NoUpload ==
  [ran |-> FALSE, lines |-> <<>>, ok |-> FALSE, rows |-> <<>>, frame |-> <<>>]

NoEdit == [field |-> "none", value |-> <<>>]

NoFetch ==
  [kind |-> "none", text |-> None, title |-> None, company |-> None,
   location |-> None, industry |-> None]

EmployeeScreen == {"file_uploader"}

RecruiterScreen == {"job_url", "Extract Job Details"}

FormScreen ==
  RecruiterScreen
    \cup {"Role", "Level", "Location", "Company", "Industry", "Find Matches"}

Edited(edit, field, old) == IF edit.field = field THEN edit.value ELSE old

\* lines 603-619: the criteria form.  A widget returns the value the user
\* gave it in this run, and otherwise the value it is built with.  The
\* index() of line 612 raises ValueError when the seniority is not one of
\* the four options; line 609 has then already changed the title in the
\* dict that the session holds.
RenderForm(ss, edit) ==
  IF "current_criteria" \notin DOMAIN ss
    THEN [session_state |-> ss, raised |-> "none", screen |-> RecruiterScreen]
  ELSE
    LET c == ss["current_criteria"]
        titled == [c EXCEPT !.job_title = Edited(edit, "job_title", @)]
        filled == [titled EXCEPT
                     !.seniority = Edited(edit, "seniority", @),
                     !.location = Edited(edit, "location", @),
                     !.company_name = Edited(edit, "company_name", @),
                     !.industry = Edited(edit, "industry", @)]
    IN IF c.seniority \notin LevelOptions
         THEN [session_state |-> Put(ss, "current_criteria", titled),
               raised |-> "ValueError",
               screen |-> RecruiterScreen \cup {"Role"}]
         ELSE [session_state |-> Put(ss, "current_criteria", filled),
               raised |-> "none",
               screen |-> FormScreen]

\* lines 592-601: the "Extract Job Details" button with a job URL given
ExtractStep(ss, posting) ==
  LET r == ExtractJobCriteria(posting)
  IN IF r.ok
       THEN [session_state |-> Put(ss, "current_criteria", r.criteria),
             ui |-> {"Job details extracted"}]
       ELSE [session_state |-> ss,
             ui |-> r.errors \cup {"Unable to extract job details"}]

\* the state of the location resolver, as the scoring finds it
LocState ==
  [cache |-> session_state["location_cache"], lru |-> lru,
   requests |-> requests, failed |-> failed, warned |-> FALSE]

\* lines 603-619 and the end of the run when "Find Matches" is not pressed
\* or the form has raised: form is what RenderForm gave, msgs the messages
\* the lines before left
FormRun(form, msgs) ==
  /\ raised' = form.raised
  /\ screen' = form.screen
  /\ session_state' = form.session_state
  /\ ui' = msgs
  /\ matching_candidates' = NoMatchRun
  /\ ingested' = NoUpload
  /\ UNCHANGED <<lru, matcher, requests, failed>>

\* the run of the Recruiter page after the extraction step e
ExtractRun(e) == FormRun(RenderForm(e.session_state, NoEdit), e.ui)

\* lines 623-630: the matching has run and its result is shown
ShowMatches(form, mc) ==
  \E result \in mc.results :
    /\ matching_candidates' = [ran |-> TRUE, rows |-> result]
    /\ session_state' =
         Put(Put(form.session_state, "connections_df", mc.df),
             "location_cache", mc.loc.cache)
    /\ lru' = mc.loc.lru
    /\ requests' = mc.loc.requests
    /\ failed' = mc.loc.failed
    /\ ui' = (IF mc.loc.warned THEN {"Could not extract location"} ELSE {})
         \cup (IF result # <<>> THEN {"Found potential matches"}
               ELSE {"No matches found"})
    /\ raised' = form.raised
    /\ screen' = form.screen
    /\ ingested' = NoUpload
    /\ UNCHANGED matcher

\* FindRun without the test of line 622: the matching is run on whatever
\* table the session holds, an empty one when it holds none
FindRunUnchecked(form, web) ==
  IF form.raised # "none" \/ "current_criteria" \notin DOMAIN form.session_state
    THEN FormRun(form, {})
  ELSE ShowMatches(form,
                   MatchCandidates(IF "connections_df" \in DOMAIN form.session_state
                                     THEN form.session_state["connections_df"]
                                     ELSE <<>>,
                                   form.session_state["current_criteria"],
                                   matcher, web, LocState))

\* lines 621-632: "Find Matches" is pressed in a run whose form is form;
\* web is the responses of the profile pages in this run
FindRun(form, web) ==
  IF form.raised # "none" \/ "current_criteria" \notin DOMAIN form.session_state
    THEN FormRun(form, {})
  ELSE IF "connections_df" \in DOMAIN form.session_state
    THEN ShowMatches(form,
                     MatchCandidates(form.session_state["connections_df"],
                                     form.session_state["current_criteria"],
                                     matcher, web, LocState))
  ELSE FormRun(form, {"Please upload your network first"})

\* StoreUpload without the test of line 562: whatever line 561 returned is
\* stored
StoreUploadAlways(lines, r) ==
  /\ ingested' = [ran |-> TRUE, lines |-> lines, ok |-> r.ok,
                   rows |-> r.rows, frame |-> r.frame]
  /\ session_state' = Put(session_state, "connections_df", r.rows)
  /\ ui' = r.errors
       \cup (IF r.ok THEN {"Network imported successfully"} ELSE {})
  /\ screen' = EmployeeScreen
  /\ raised' = "none"
  /\ matching_candidates' = NoMatchRun
  /\ UNCHANGED <<role, lru, matcher, requests, failed>>

\* lines 562-564 and the end of the run: r is what line 561 returned for
\* the file; it is stored when it is not None
StoreUpload(lines, r) ==
  /\ ingested' = [ran |-> TRUE, lines |-> lines, ok |-> r.ok,
                   rows |-> r.rows, frame |-> r.frame]
  /\ session_state' =
       IF r.ok THEN Put(session_state, "connections_df", r.rows)
       ELSE session_state
  /\ ui' = r.errors
       \cup (IF r.ok THEN {"Network imported successfully"} ELSE {})
  /\ screen' = EmployeeScreen
  /\ raised' = "none"
  /\ matching_candidates' = NoMatchRun
  /\ UNCHANGED <<role, lru, matcher, requests, failed>>

\* One run of the Employee page with a file in the uploader (lines 560-571)
UploadRun(lines) == StoreUpload(lines, ExtractLinkedinConnections(lines))


(***************************************************************************)
(* The inputs of the model                                                 *)
(***************************************************************************)
\* bounds: the most contacts in a table drawn for the matching, and the
\* most data lines in a file drawn for the ingestion
MaxRows == 7
MaxFileRows == 3

UrlA == <<"l","i","n","k","e","d","i","n",".","c","o","m","/","i","n","/","a">>
UrlB == <<"L","i","n","k","e","d","I","n",".","c","o","m","/","i","n","/","b","?","l","o","c","a","t","i","o","n","=","n","y","+","c">>
ProfileUrls == { UrlA, UrlB }

\* the three lines LinkedIn puts before the header of an export
BannerLines == << << <<"N","o","t","e","s",":">> >>, << <<"W","h","e","n"," ","e","x","p","o","r","t","i","n","g">> >>, <<>> >>

CanonicalHeader == << <<"F","i","r","s","t"," ","N","a","m","e">>, <<"L","a","s","t"," ","N","a","m","e">>, <<"U","R","L">>, <<"E","m","a","i","l"," ","A","d","d","r","e","s","s">>, <<"C","o","m","p","a","n","y">>, <<"P","o","s","i","t","i","o","n">>, <<"C","o","n","n","e","c","t","e","d"," ","O","n">> >>

\* the contacts the matching is run on, as lines of an export
ContactLines ==
  << << <<"A","n","n">>, <<"L">>, <<"l","i","n","k","e","d","i","n",".","c","o","m","/","i","n","/","a">>, <<"a","@","x",".","i","o">>, <<"A","c","m","e">>, <<"S","e","n","i","o","r"," ","D","e","v">>, <<"2","0","2","0">> >>,
     << <<"B","o","b">>, <<"L">>, <<>>, <<>>, <<" ","A","C","M","E"," ">>, <<"d","e","v">>, <<"2","0","2","1">> >>,
     << <<"C","y">>, <<"L">>, <<"L","i","n","k","e","d","I","n",".","c","o","m","/","i","n","/","b","?","l","o","c","a","t","i","o","n","=","n","y","+","c">>, <<>>, <<"T","e","c","h"," ","C","o">>, <<"S","e","n","i","o","r"," ","D","e","v">>, <<"s","o","o","n">> >>,
     << <<"D","i">>, <<"L">>, <<"x",".","o","r","g","/","u">>, <<>>, <<"B","e","t","a">>, <<"d","e","v">>, <<>> >>,
     << <<"E","d">>, <<"L">>, <<>>, <<>>, <<>>, <<"d","e","v","s">>, <<"2","0","2","0">> >>,
     << <<"F","l","o">>, <<"L">>, <<"l","i","n","k","e","d","i","n",".","c","o","m","/","i","n","/","a">>, <<>>, <<"B","e","t","a">>, <<"S","e","n","i","o","r"," ","Q","A">>, <<"2","0","2","0">> >>,
     << <<"G","u","s">>, <<"L">>, <<>>, <<>>, <<"B","e","t","a">>, <<"e","d">>, <<"2","0","2","0">> >>,
     << <<"H","a","l">>, <<"L">>, <<"L","i","n","k","e","d","I","n",".","c","o","m","/","i","n","/","b","?","l","o","c","a","t","i","o","n","=","n","y","+","c">>, <<>>, <<"B","e","t","a">>, <<"q","a">>, <<"2","0","2","0">> >>,
     << <<"I","v","y">>, <<"L">>, <<>>, <<>>, <<"B","e","t","a">>, <<"d">>, <<"2","0","2","0">> >> >>

\* the sequences over set S of length at most n
RECURSIVE SeqsUpTo(_, _)
SeqsUpTo(S, n) ==
  IF n = 0 THEN { <<>> }
  ELSE SeqsUpTo(S, n - 1)
         \cup { Append(t, x) : t \in { u \in SeqsUpTo(S, n - 1) : Len(u) = n - 1 },
                               x \in S }

Export(lines) == BannerLines \o <<CanonicalHeader>> \o lines

\* the runs of at most n consecutive elements of seq
Slices(seq, n) ==
  { SubSeq(seq, p[1], p[1] + p[2] - 1) :
      p \in { q \in (1..Len(seq)) \X (0..n) : q[1] + q[2] - 1 <= Len(seq) } }

MatchFiles == { Export(t) : t \in Slices(ContactLines, MaxRows) }

Txt_dev == <<"d","e","v">>
Txt_vp == <<"v","p">>
Txt_Acme == <<"A","c","m","e">>
Txt_Beta == <<"B","e","t","a">>
Txt_nan == <<"n","a","n">>
Txt_ny == <<"n","y">>
Txt_tech == <<"t","e","c","h">>
Txt_Senior == <<"S","e","n","i","o","r">>
Txt_Management == <<"M","a","n","a","g","e","m","e","n","t">>
Txt_DevSenior == <<"D","e","v"," ","S","e","n","i","o","r">>
Txt_TechCo == <<"T","e","c","h"," ","C","o">>

\* the criteria the matching is run with: what the form can hold
MatchCriteria ==
  { [job_title |-> Txt_dev, seniority |-> Txt_Senior, company_name |-> Txt_Acme,
     location |-> Txt_ny, industry |-> Txt_tech, years_experience |-> 0],
    [job_title |-> Txt_dev, seniority |-> Txt_Senior, company_name |-> Txt_Acme,
     location |-> NotSpecified, industry |-> NotSpecified, years_experience |-> 0],
    [job_title |-> Txt_vp, seniority |-> Txt_Senior, company_name |-> Txt_nan,
     location |-> Txt_ny, industry |-> NotSpecified, years_experience |-> 0],
    [job_title |-> NotFound, seniority |-> Txt_Management,
     company_name |-> NotSpecified, location |-> NotSpecified,
     industry |-> Txt_tech, years_experience |-> 0],
    [job_title |-> Txt_DevSenior, seniority |-> Txt_Senior,
     company_name |-> Txt_Beta, location |-> Txt_ny, industry |-> Txt_TechCo,
     years_experience |-> 0],
    [job_title |-> Txt_dev, seniority |-> Txt_Senior, company_name |-> Txt_Acme,
     location |-> Lower(NotSpecified), industry |-> Lower(NotSpecified),
     years_experience |-> 0] }

\* the responses of the two profile pages in one run
AllWebs == [ProfileUrls -> Responses]

MatchWebs ==
  { w \in AllWebs : \/ w[UrlA] = w[UrlB] /\ w[UrlA].scraped # Txt_ny42
                    \/ w[UrlA].kind = "error" /\ w[UrlB].scraped = Txt_ny42 }


\* the headers and the data lines the ingestion is run on
IngestHeaders ==
  { CanonicalHeader,
    << <<"C","o","m","p","a","n","y">>, <<"P","o","s","i","t","i","o","n">>, <<"F","i","r","s","t"," ","N","a","m","e">>, <<"L","a","s","t"," ","N","a","m","e">> >>,
    << <<"F","u","l","l"," ","N","a","m","e">>, <<"C","o","m","p","a","n","y"," ","N","a","m","e">>, <<"T","i","t","l","e">>, <<"P","r","o","f","i","l","e"," ","L","i","n","k">> >>,
    << <<"i","d">>, <<"n","o","t","e">> >> }

IngestLines ==
  { << <<"A","n","n">>, <<"L">>, <<"l","i","n","k","e","d","i","n",".","c","o","m","/","i","n","/","a">>, <<"a","@","x",".","i","o">>, <<"A","c","m","e">>, <<"D","e","v">>, <<"2","0","2","0">> >>,
    << <<" ","A","n","n">>, <<"L">>, <<"l","i","n","k","e","d","i","n",".","c","o","m","/","i","n","/","a">>, <<"a","@","x",".","i","o">>, <<"A","c","m","e"," ">>, <<" ","D","e","v"," ">>, <<"2","0","2","0">> >>,
    << <<"A","n","n">>, <<"L">>, <<"l","i","n","k","e","d","i","n",".","c","o","m","/","i","n","/","a">>, <<"a","@","x",".","i","o">>, <<"A","c","m","e">>, <<"D","e","v">>, <<"s","o","o","n">> >>,
    << <<"B","o","b">>, <<"L">>, <<>>, <<>>, <<"B","e","t","a">>, <<"Q","A">> >>,
    << <<"A","c","m","e">>, <<"D","e","v">>, <<"A","n","n">>, <<"L">> >>,
    << <<"C","y">>, <<"L">>, <<>>, <<>>, <<"B","e","t","a">>, <<"Q","A">>, <<"2","0","2","1">>, <<"e","x","t","r","a">> >> }

IngestFiles ==
  { b \o <<h>> \o t :
      b \in { <<>>, BannerLines }, h \in IngestHeaders,
      t \in SeqsUpTo(IngestLines, MaxFileRows) }

\* the files the Employee of the session uploads
FilePool ==
  { Export(SubSeq(ContactLines, 3, 4)),
    Export(<<>>),
    <<CanonicalHeader>> \o SubSeq(ContactLines, 1, 2),
    BannerLines \o << << <<"i","d">>, <<"n","o","t","e">> >>, << <<"1">>, <<"h","e","l","l","o">> >> >> }

\* the job postings the Recruiter of the session gives the URL of
Txt_devwanted == <<"d","e","v"," ","w","a","n","t","e","d">>
\* "Lead Developer at Acme location: ny. industry: tech." and the title the
\* second title pattern captures in it
Txt_leaddev == <<"L","e","a","d"," ","D","e","v","e","l","o","p","e","r"," ","a","t"," ","A","c","m","e"," ","l","o","c","a","t","i","o","n",":"," ","n","y","."," ","i","n","d","u","s","t","r","y",":"," ","t","e","c","h",".">>
Txt_LeadDeveloper == <<"L","e","a","d"," ","D","e","v","e","l","o","p","e","r">>

Postings ==
  { [kind |-> "error", text |-> None, title |-> None, company |-> None,
     location |-> None, industry |-> None],
    [kind |-> "page", text |-> None, title |-> None, company |-> None,
     location |-> None, industry |-> None] }
  \cup { [kind |-> "page", text |-> Txt_devwanted, title |-> None,
          company |-> None, location |-> None, industry |-> None],
         [kind |-> "page", text |-> Txt_leaddev, title |-> Txt_LeadDeveloper,
          company |-> Txt_Acme, location |-> Txt_ny, industry |-> Txt_tech] }

\* what the Recruiter of the session types or selects in the form
Edits ==
  { [field |-> "job_title", value |-> Txt_dev],
    [field |-> "company_name", value |-> Txt_Beta],
    [field |-> "seniority", value |-> Txt_Management] }

\* the widget of each field of the form
WidgetOf(field) ==
  CASE field = "job_title" -> "Role"
    [] field = "seniority" -> "Level"
    [] field = "location" -> "Location"
    [] field = "company_name" -> "Company"
    [] field = "industry" -> "Industry"

SessionWebs == { w \in MatchWebs : w[UrlA] = w[UrlB] }

NoWeb == [u \in ProfileUrls |-> [kind |-> "error", scraped |-> None]]

(***************************************************************************)
(* The interactions of the user; each is one run of main()                 *)
(***************************************************************************)
Init ==
  /\ role = "Employee"
  /\ session_state = [location_cache |-> <<>>]
  /\ lru = <<>>
  /\ matcher \in Matchers
  /\ requests = <<>>
  /\ failed = {}
  /\ screen = EmployeeScreen
  /\ ui = {}
  /\ raised = "none"
  /\ matching_candidates = NoMatchRun
  /\ ingested = NoUpload
  /\ fetched = NoFetch

\* the sidebar selectbox is set (lines 534, 553 and 583); no file is in the
\* uploader and no button is pressed in this run
SelectRole ==
  \E r \in Roles :
    /\ role' = r
    /\ fetched' = NoFetch
    /\ IF r = "Employee"
         THEN /\ screen' = EmployeeScreen
              /\ ui' = {}
              /\ raised' = "none"
              /\ matching_candidates' = NoMatchRun
              /\ ingested' = NoUpload
              /\ UNCHANGED <<session_state, lru, matcher, requests, failed>>
         ELSE FormRun(RenderForm(session_state, NoEdit), {})

\* a file is put in the uploader of the Employee page
UploadFile ==
  /\ "file_uploader" \in screen
  /\ fetched' = NoFetch
  /\ \E lines \in FilePool : UploadRun(lines)

\* "Extract Job Details" is pressed with the URL of a posting
ExtractJobDetailsOf(postings) ==
  /\ "Extract Job Details" \in screen
  /\ role' = role
  /\ \E posting \in postings :
       /\ fetched' = posting
       /\ ExtractRun(ExtractStep(session_state, posting))

ExtractJobDetails == ExtractJobDetailsOf(Postings)

\* a field of the criteria form is edited
EditCriteria ==
  \E edit \in Edits :
    /\ WidgetOf(edit.field) \in screen
    /\ role' = role
    /\ fetched' = NoFetch
    /\ FormRun(RenderForm(session_state, edit), {})

\* "Find Matches" is pressed
FindMatchesWith(webs) ==
  /\ "Find Matches" \in screen
  /\ role' = role
  /\ fetched' = NoFetch
  /\ \E web \in webs : FindRun(RenderForm(session_state, NoEdit), web)

FindMatches == FindMatchesWith(SessionWebs)

Next ==
  \/ SelectRole
  \/ UploadFile
  \/ ExtractJobDetails
  \/ EditCriteria
  \/ FindMatches

Spec == Init /\ [][Next]_vars

(***************************************************************************)
(* match_candidates on the tables and criteria of bounded sets: the        *)
(* session holds the table of an ingested export and a criteria record,    *)
(* and the Recruiter presses "Find Matches".                               *)
(***************************************************************************)
InitMatch ==
  /\ role = "Recruiter"
  /\ \E f \in MatchFiles, c \in MatchCriteria :
       session_state =
         [location_cache |-> <<>>,
          connections_df |-> ExtractLinkedinConnections(f).rows,
          current_criteria |-> c]
  /\ lru = <<>>
  /\ matcher \in Matchers
  /\ requests = <<>>
  /\ failed = {}
  /\ screen = FormScreen
  /\ ui = {}
  /\ raised = "none"
  /\ matching_candidates = NoMatchRun
  /\ ingested = NoUpload
  /\ fetched = NoFetch

FindMatchesDrawn == FindMatchesWith(MatchWebs)

NextMatch == FindMatchesDrawn

SpecMatch == InitMatch /\ [][NextMatch]_vars

(***************************************************************************)
(* extract_linkedin_connections on the files of a bounded set: the file is *)
(* in the uploader and the Employee page runs on it.                       *)
(***************************************************************************)
InitIngest ==
  /\ role = "Employee"
  /\ session_state = [location_cache |-> <<>>]
  /\ lru = <<>>
  /\ matcher \in Matchers
  /\ requests = <<>>
  /\ failed = {}
  /\ screen = EmployeeScreen
  /\ ui = {}
  /\ raised = "none"
  /\ matching_candidates = NoMatchRun
  /\ \E f \in IngestFiles :
       ingested = [NoUpload EXCEPT !.lines = f]
  /\ fetched = NoFetch

IngestDrawn ==
  /\ ~ingested.ran
  /\ fetched' = NoFetch
  /\ UploadRun(ingested.lines)

NextIngest == IngestDrawn

SpecIngest == InitIngest /\ [][NextIngest]_vars


(***************************************************************************)
(* extract_job_criteria on the postings of a bounded set: the Recruiter    *)
(* page is shown and "Extract Job Details" is pressed once with the URL of *)
(* a posting whose text is at most MaxWords words of SeniorityWords.  None *)
(* of the patterns of lines 252-296 matches such a text.                   *)
(***************************************************************************)
MaxWords == 3

SeniorityWords ==
  { <<"j","u","n","i","o","r">>,
    <<"S","e","n","i","o","r">>,
    <<"h","e","a","d">>,
    <<"m","i","d","w","e","e","k">>,
    <<"d","e","v">>,
    <<"S","R">> }

CriteriaPostings ==
  { [kind |-> "page", text |-> Join(t), title |-> None, company |-> None,
     location |-> None, industry |-> None] :
      t \in SeqsUpTo(SeniorityWords, MaxWords) }

InitCriteria ==
  /\ role = "Recruiter"
  /\ session_state = [location_cache |-> <<>>]
  /\ lru = <<>>
  /\ matcher \in Matchers
  /\ requests = <<>>
  /\ failed = {}
  /\ screen = RecruiterScreen
  /\ ui = {}
  /\ raised = "none"
  /\ matching_candidates = NoMatchRun
  /\ ingested = NoUpload
  /\ fetched = NoFetch

ExtractDrawn ==
  /\ fetched = NoFetch
  /\ ExtractJobDetailsOf(CriteriaPostings)

NextCriteria == ExtractDrawn

SpecCriteria == InitCriteria /\ [][NextCriteria]_vars


(***************************************************************************)
(* Properties of match_candidates, stated for SpecMatch.  Scores are in   *)
(* hundredths of a point: 2000 is the score 20.                            *)
(***************************************************************************)
Table == session_state["connections_df"]

Criteria == session_state["current_criteria"]

Shortlist == matching_candidates.rows

\* the contact of this row of the table is in the shortlist
Listed(row) == \E j \in 1..Len(Shortlist) : Shortlist[j]["index"] = row["index"]

AboveThreshold == { i \in 1..Len(Table) : Table[i]["match_score"] > 2000 }

\* C1: after a matching run, every contact whose Company equals the
\* company_name of the criteria ignoring case has match_score 0 and is not
\* in the shortlist, whatever its other fields and the other criteria are.
C1_SameCompanyExcluded ==
  matching_candidates.ran =>
    \A i \in 1..Len(Table) :
      Lower(Table[i]["Company"]) = Lower(Criteria.company_name) =>
        /\ Table[i]["match_score"] = 0
        /\ ~Listed(Table[i])

\* a contact of the hiring company, its name written in another case, is
\* left out while a contact of another company with the same position is
\* in the shortlist
C1_Witness ==
  /\ matching_candidates.ran
  /\ \E i, k \in 1..Len(Table) :
       /\ Lower(Table[i]["Company"]) = Lower(Criteria.company_name)
       /\ Table[i]["Company"] # Criteria.company_name
       /\ Table[k]["Position"] = Table[i]["Position"]
       /\ Table[i]["match_score"] = 0
       /\ ~Listed(Table[i])
       /\ Listed(Table[k])

\* C2: every fuzzy ratio of a contact is an integer in 0..100 and every
\* match_score lies between 0 and 100, the sum 50 + 20 + 15 + 15 of the
\* weights.
C2_ScoreWithinWeights ==
  /\ TitleWeight + SeniorityPoints + LocationWeight + IndustryWeight = 100
  /\ matching_candidates.ran =>
       \A i \in 1..Len(Table) :
         /\ TokenSortRatio(matcher, Lower(Criteria.job_title),
                           Lower(Table[i]["Position"])) \in 0..100
         /\ TokenSortRatio(matcher, Lower(Criteria.industry),
                           Lower(Table[i]["Company"])) \in 0..100
         /\ Table[i]["match_score"] >= 0
         /\ Table[i]["match_score"] <= 100 * 100

\* a contact reaches the score 100: all four terms are full
C2_Witness ==
  /\ matching_candidates.ran
  /\ \E i \in 1..Len(Table) :
       Table[i]["match_score"] = 100 * 100 /\ Listed(Table[i])

\* C3: the shortlist has at most 5 rows, its scores never increase from one
\* row to the next, and no contact above the threshold that was left out
\* scores higher than a contact in it.
C3_TopFiveInOrder ==
  matching_candidates.ran =>
    /\ Len(Shortlist) <= 5
    /\ \A j, k \in 1..Len(Shortlist) :
         j < k => Shortlist[j]["match_score"] >= Shortlist[k]["match_score"]
    /\ \A i \in AboveThreshold :
         ~Listed(Table[i]) =>
           \A j \in 1..Len(Shortlist) :
             Table[i]["match_score"] <= Shortlist[j]["match_score"]

\* six or more contacts score above the threshold with distinct scores, and
\* the shortlist is five of them in strictly decreasing order
C3_Witness ==
  /\ matching_candidates.ran
  /\ Cardinality(AboveThreshold) >= 6
  /\ \A i, k \in AboveThreshold :
       i # k => Table[i]["match_score"] # Table[k]["match_score"]
  /\ Len(Shortlist) = 5
  /\ \A j \in 1..4 : Shortlist[j]["match_score"] > Shortlist[j + 1]["match_score"]

\* C4: every row of the shortlist scores more than 20, and a contact that
\* scores more than 20 is in the shortlist whenever fewer than 5 other
\* contacts score more than 20.
C4_ThresholdTwenty ==
  matching_candidates.ran =>
    /\ \A j \in 1..Len(Shortlist) : Shortlist[j]["match_score"] > 2000
    /\ \A i \in 1..Len(Table) : Listed(Table[i]) => Table[i]["match_score"] > 2000
    /\ \A i \in AboveThreshold :
         Cardinality(AboveThreshold \ {i}) < 5 => Listed(Table[i])

\* a contact scoring exactly 20 is left out and one scoring 25 is listed
C4_Witness ==
  /\ matching_candidates.ran
  /\ \E i, k \in 1..Len(Table) :
       /\ Table[i]["match_score"] = 2000
       /\ ~Listed(Table[i])
       /\ Table[k]["match_score"] = 2500
       /\ Listed(Table[k])

\* C5: no profile URL is ever requested twice, and a URL whose request
\* failed is held by the session cache with the absent value, which is also
\* what the call returned (the memo holds the returned value); no run ends
\* with an exception.
C5_FailureCachedOnce ==
  /\ raised = "none"
  /\ \A u \in DOMAIN requests : requests[u] <= 1
  /\ \A u \in failed :
       /\ u \in DOMAIN session_state["location_cache"]
       /\ session_state["location_cache"][u] = None
       /\ \E i \in 1..Len(lru) : lru[i] = <<u, None>>

\* a run after the one in which the request of a URL failed: the contact of
\* that URL was scored again, nothing was requested and nothing failed anew
C5_Witness ==
  /\ matching_candidates.ran
  /\ failed # {}
  /\ "Could not extract location" \notin ui
  /\ \A u \in failed : requests[u] = 1
  /\ \E i \in 1..Len(Table) : Table[i]["URL"] \in failed


(***************************************************************************)
(* Properties of the ingestion, stated for SpecIngest                     *)
(***************************************************************************)
\* a file without banner lines whose first line is a header carrying the
\* four required columns, and none of whose lines is longer than the header
ZeroBannerCanonical(lines) ==
  /\ lines # <<>>
  /\ \A k \in RequiredColumns :
       \E c \in 1..Len(Head(lines)) : Head(lines)[c] = ColumnText[k]
  /\ \A i \in 2..Len(lines) : Len(lines[i]) <= Len(Head(lines))

\* the first strategy, on the file as uploaded, does not match
FirstStrategyFails(lines) ==
  \/ ReadCsv(OpenFile(lines), 3, FALSE).raised
  \/ ~HasRequired(ReadCsv(OpenFile(lines), 3, FALSE).df)

\* C6: a file with no banner lines and a canonical header, which the first
\* strategy does not match, is ingested by the second strategy: the result
\* is not absent and is the normalized table of the whole file.
C6_ZeroBannerIngested ==
  ( /\ ingested.ran
    /\ ZeroBannerCanonical(ingested.lines)
    /\ FirstStrategyFails(ingested.lines) )
  => /\ ingested.ok
     /\ ingested.rows = CleanCsvData(ReadCsv(OpenFile(ingested.lines), 0, FALSE).df)

\* the canonical columns on which rows a and b of a table differ
Differing(a, b) ==
  { c \in 1..Len(ExpectedColumns) : a[ExpectedColumns[c]] # b[ExpectedColumns[c]] }

\* C10: the table of a successful ingestion holds no two rows equal in all
\* the canonical columns, and the normalized form of every row read from
\* the file is a row of it.
C10_NoDuplicateRows ==
  (ingested.ran /\ ingested.ok) =>
    /\ \A i, j \in 1..Len(ingested.rows) :
         i # j => Differing(ingested.rows[i], ingested.rows[j]) # {}
    /\ \A i \in 1..Len(ingested.frame.data) :
         \E j \in 1..Len(ingested.rows) :
           \A c \in 1..Len(ExpectedColumns) :
             ingested.rows[j][ExpectedColumns[c]]
               = CleanCell(ingested.frame, i, ExpectedColumns[c])

\* a file with two lines equal up to the whitespace around their cells and
\* a third, different line gives a table of two rows
C10_Witness ==
  /\ ingested.ran
  /\ ingested.ok
  /\ Len(ingested.frame.data) = 3
  /\ Len(ingested.rows) = 2
  /\ \E i, j \in 1..3 :
       /\ i # j
       /\ ingested.frame.data[i] # ingested.frame.data[j]
       /\ \A c \in 1..Len(ExpectedColumns) :
            CleanCell(ingested.frame, i, ExpectedColumns[c])
              = CleanCell(ingested.frame, j, ExpectedColumns[c])

(***************************************************************************)
(* Properties of the session, stated for Spec                             *)
(***************************************************************************)
\* C7: no run ends with an exception, and whenever the session holds a
\* criteria record the Recruiter page shows the whole criteria form.
C7_FormShownWithoutError ==
  /\ raised = "none"
  /\ ("job_url" \in screen /\ "current_criteria" \in DOMAIN session_state)
       => FormScreen \subseteq screen

\* the contact table of a session, absent when the session holds none
StoredTable(ss) ==
  IF "connections_df" \in DOMAIN ss THEN << ss["connections_df"] >> ELSE <<>>

\* C8: pressing "Find Matches" while the session holds no contact table
\* shows the warning and runs no matching; a matching runs only from a state
\* whose session holds a contact table and a criteria record.
C8_FindNeedsUpload ==
  [][ /\ ( /\ "connections_df" \notin DOMAIN session_state
           /\ FindMatches )
         => /\ "Please upload your network first" \in ui'
            /\ ~matching_candidates'.ran
            /\ "connections_df" \notin DOMAIN session_state'
      /\ matching_candidates'.ran
         => /\ "connections_df" \in DOMAIN session_state
            /\ "current_criteria" \in DOMAIN session_state
            /\ "Please upload your network first" \notin ui' ]_vars

\* the criteria form is shown, no table is stored, the button was pressed
\* and the warning is on the page
C8_Witness ==
  /\ "Please upload your network first" \in ui
  /\ "Find Matches" \in screen
  /\ "current_criteria" \in DOMAIN session_state
  /\ "connections_df" \notin DOMAIN session_state
  /\ ~matching_candidates.ran

\* C9: an upload for which extract_linkedin_connections returns absent
\* shows an error and leaves the contact table of the session as it was,
\* absent or the table of an earlier upload; a successful one stores its
\* table.
C9_FailedUploadStoresNothing ==
  [][ ingested'.ran =>
        IF ingested'.ok
          THEN StoredTable(session_state') = << ingested'.rows >>
          ELSE /\ StoredTable(session_state') = StoredTable(session_state)
               /\ ui' \in { {"Error processing CSV file"},
                             {"Unable to process CSV file"} }
               /\ ingested'.rows = <<>> ]_vars

\* a failed upload after a successful one: the earlier table is still held
C9_Witness ==
  /\ ingested.ran
  /\ ~ingested.ok
  /\ ui \cap {"Error processing CSV file", "Unable to process CSV file"} # {}
  /\ "connections_df" \in DOMAIN session_state
  /\ session_state["connections_df"] # <<>>

(***************************************************************************)
(* Properties of extract_job_criteria, stated for SpecCriteria             *)
(***************************************************************************)
\* the page of the last run gave a description and its criteria are stored
Extracted == fetched.kind = "page" /\ "Job details extracted" \in ui

\* a keyword of the i-th bucket occurs in the lower-cased description
BucketHit(i) ==
  \E k \in SeniorityLevels[i].keywords : Contains(Lower(fetched.text), k)

Txt_junior == <<"j","u","n","i","o","r">>
Txt_senior == <<"s","e","n","i","o","r">>
Txt_EntryLevel == <<"E","n","t","r","y"," ","L","e","v","e","l">>
Txt_MidLevel == <<"M","i","d","-","L","e","v","e","l">>
Txt_NotSpecified == <<"N","o","t"," ","s","p","e","c","i","f","i","e","d">>

\* C11: the seniority of the extracted criteria is the first of the buckets
\* Entry Level, Mid-Level, Senior, Management that has a keyword occurring,
\* whatever its case, inside the description; a description with both
\* "junior" and "senior" gives "Entry Level" and one with no keyword of any
\* bucket gives "Not specified".
C11_FirstBucketWins ==
  Extracted =>
    /\ Criteria.seniority =
         IF BucketHit(1) THEN Txt_EntryLevel
         ELSE IF BucketHit(2) THEN Txt_MidLevel
         ELSE IF BucketHit(3) THEN Txt_Senior
         ELSE IF BucketHit(4) THEN Txt_Management
         ELSE Txt_NotSpecified
    /\ ( Contains(Lower(fetched.text), Txt_junior)
         /\ Contains(Lower(fetched.text), Txt_senior) )
         => Criteria.seniority = Txt_EntryLevel
    /\ (\A i \in 1..4 : ~BucketHit(i)) => Criteria.seniority = Txt_NotSpecified

\* a description where "Senior" comes before "junior" gave "Entry Level"
C11_Witness ==
  /\ Extracted
  /\ fetched.text = <<"S","e","n","i","o","r"," ","h","e","a","d"," ","j","u","n","i","o","r">>
  /\ Criteria.seniority = Txt_EntryLevel

(***************************************************************************)
(* The effect of match_candidates on the table of the session, stated for  *)
(* SpecMatch, where "Find Matches" is pressed any number of times          *)
(***************************************************************************)
\* the fields of a row of the table other than match_score
OwnFields(row) == DOMAIN row \ {"match_score"}

\* C12: a matching run changes the contact table only in its match_score
\* column: the table has the same rows in the same places, every other
\* field of every row, the raw URL included, is what it was before the
\* run, and the link is only in the URL of the rows of the shortlist.
C12_OnlyScoreColumnChanges ==
  [][ matching_candidates'.ran =>
        LET old == session_state["connections_df"]
            new == session_state'["connections_df"]
        IN /\ Len(new) = Len(old)
           /\ \A i \in 1..Len(old) :
                /\ OwnFields(new[i]) = OwnFields(old[i])
                /\ "match_score" \in DOMAIN new[i]
                /\ \A k \in OwnFields(old[i]) : new[i][k] = old[i][k]
           /\ \A j \in 1..Len(matching_candidates'.rows) :
                \E i \in 1..Len(old) :
                  /\ old[i]["index"] = matching_candidates'.rows[j]["index"]
                  /\ matching_candidates'.rows[j]["URL"]
                       = LinkPrefix \o PyStr(old[i]["URL"]) \o LinkSuffix ]_vars

\* a run has listed a contact with its URL as a link while the table holds
\* the contact with the scores of the run and the URL as it was uploaded
C12_Witness ==
  /\ matching_candidates.ran
  /\ \E j \in 1..Len(Shortlist), i \in 1..Len(Table) :
       /\ Table[i]["index"] = Shortlist[j]["index"]
       /\ Table[i]["URL"] = UrlA
       /\ Shortlist[j]["URL"] = LinkPrefix \o UrlA \o LinkSuffix
       /\ Table[i]["match_score"] = Shortlist[j]["match_score"]

(***************************************************************************)
(* The terms of score_candidate, stated for SpecMatch.  A similarity is an *)
(* integer in 0..100 and a score is in hundredths of a point, so 0.5 of a  *)
(* similarity is 50 hundredths and 0.15 of it is 15 hundredths per unit.   *)
(* The texts are compared lower-cased, as lines 421-439 compare them.      *)
(***************************************************************************)
\* the location the resolver gave for the URL of the row in the run
Resolved(row) ==
  LET hit == LruHit(lru, PyStr(row["URL"]))
  IN IF hit = {} THEN None ELSE lru[CHOOSE x \in hit : TRUE][2]

Specified(text) == Lower(text) # Lower(Txt_NotSpecified)

TitleTerm(row) ==
  50 * TokenSortRatio(matcher, Lower(Criteria.job_title),
                      Lower(PyStr(row["Position"])))

SeniorityTerm(row) ==
  IF Contains(Lower(PyStr(row["Position"])), Lower(Criteria.seniority))
    THEN 2000 ELSE 0

LocationTerm(row) ==
  IF Specified(Criteria.location) /\ Truthy(Resolved(row))
    THEN 15 * TokenSortRatio(matcher, Lower(Criteria.location),
                             Lower(Resolved(row)))
    ELSE 0

IndustryTerm(row) ==
  IF Specified(Criteria.industry)
    THEN 15 * TokenSortRatio(matcher, Lower(Criteria.industry),
                             Lower(PyStr(row["Company"])))
    ELSE 0

NotExcluded(row) ==
  Lower(PyStr(row["Company"])) # Lower(Criteria.company_name)

\* C13: the match_score of a contact that the company rule does not exclude
\* is 0.5 of the title similarity, plus 20 when the lower-cased seniority
\* of the criteria is inside the position, plus 0.15 of the location
\* similarity only when the job location is specified and a location was
\* resolved for the contact, plus 0.15 of the industry similarity only when
\* the job industry is specified; a term whose condition fails adds 0.
C13_ScoreIsSumOfTerms ==
  matching_candidates.ran =>
    \A i \in 1..Len(Table) :
      NotExcluded(Table[i]) =>
        Table[i]["match_score"] =
          TitleTerm(Table[i]) + SeniorityTerm(Table[i])
            + LocationTerm(Table[i]) + IndustryTerm(Table[i])

\* a contact with a resolved location scored for a job whose location is
\* not specified: its score is the title and seniority terms and nothing
\* for the location; and it is in the shortlist
C13_Witness ==
  /\ matching_candidates.ran
  /\ ~Specified(Criteria.location)
  /\ \E i \in 1..Len(Table) :
       /\ NotExcluded(Table[i])
       /\ Truthy(Resolved(Table[i]))
       /\ SeniorityTerm(Table[i]) = 2000
       /\ TitleTerm(Table[i]) > 0
       /\ Table[i]["match_score"] =
            TitleTerm(Table[i]) + SeniorityTerm(Table[i]) + IndustryTerm(Table[i])
       /\ Listed(Table[i])

=============================================================================
